---------------------------- MODULE Spec2Model ----------------------------
(***************************************************************************)
(* A model of app.py, the Flask video organiser: the User / Category /     *)
(* Video tables, the per-client login session, the upload and thumbnail    *)
(* directories, and one action per request handler.                        *)
(*                                                                         *)
(* Text values (form fields, file names, URLs) are sequences of one-       *)
(* character strings, so that strip(), lower(), rsplit(), the regular      *)
(* expressions of extract_video_id and the file-name formatting are        *)
(* computed character by character.  The empty string '' is <<>>; Python's *)
(* None is the one-element sequence None below, which no text equals.      *)
(***************************************************************************)
EXTENDS Integers, Sequences, FiniteSets, TLC

VARIABLES users, categories, videos, session, thumbFiles, uploadFiles,
          now, resp, pendingCat, raced, impersonated, deletedIds, ext, served

\* users, categories, videos : the rows of the three tables
\* session       : per client, the id of the logged-in user (0: anonymous)
\* thumbFiles    : the file names in THUMBNAIL_FOLDER
\* uploadFiles   : the file names in UPLOAD_FOLDER
\* now           : the clock, in seconds
\* resp          : the response to the last request served
\* pendingCat    : per client, the add_category request that has run its
\*                 existence query and not yet inserted
\* ext           : the last result of extract_youtube_thumbnail on its own
\* History variables, read by no handler:
\* raced         : an add_category passed its existence query while another
\*                 request with the same name and user was pending
\* impersonated  : the clients whose session was set by admin_impersonate
\* deletedIds    : the video ids that delete_video has removed
\* served        : the number of requests served
vars == <<users, categories, videos, session, thumbFiles, uploadFiles,
          now, resp, pendingCat, raced, impersonated, deletedIds, ext, served>>

-----------------------------------------------------------------------------
(* Bounds of the model *)

MaxUsers == 2

MaxCategories == 2

MaxVideos == 2

MaxTime == 1

MaxRequests == 6

MaxAddRequests == 4

-----------------------------------------------------------------------------
(* Text helpers *)

None == <<"None">>

Clients == {1, 2}

Whitespace == {" "}

RECURSIVE LStrip(_)
LStrip(s) ==
    IF s # <<>> /\ Head(s) \in Whitespace THEN LStrip(Tail(s)) ELSE s

RECURSIVE RStrip(_)
RStrip(s) ==
    IF s # <<>> /\ s[Len(s)] \in Whitespace
    THEN RStrip(SubSeq(s, 1, Len(s) - 1))
    ELSE s

\* str.strip()
Strip(s) == RStrip(LStrip(s))

\* request.form.get(key, default): the default when the field is missing
FormGet(v, default) == IF v = None THEN default ELSE v

\* Python truthiness of an optional text value
Truthy(s) == s # None /\ s # <<>>

SetMax(S) == CHOOSE x \in S : \A y \in S : y <= x

\* The id the database gives a new row: SQLAlchemy's Integer primary key on
\* the default SQLite database is a rowid alias without AUTOINCREMENT, so a
\* new row gets the largest id in the table plus one.
NextId(rows) == IF rows = {} THEN 1 ELSE SetMax({r.id : r \in rows}) + 1

Response(op, c, status, flash) ==
    [op |-> op, c |-> c, status |-> status, flash |-> flash, body |-> {}]

-----------------------------------------------------------------------------
(* Passwords *)

BcryptGenerate(password) == <<"$2b$">> \o password

BcryptCheck(hash, password) == hash = BcryptGenerate(password)

-----------------------------------------------------------------------------
(* Session and roles *)

IsAuthenticated(c) == session[c] # 0 /\ \E u \in users : u.id = session[c]

CurrentUser(c) == CHOOSE u \in users : u.id = session[c]

AdminName == <<"a", "d", "m", "i", "n">>

\* Mutant: every logged-in user passes
IsAdminAnyUser(c) == IsAuthenticated(c)

IsAdmin(c) == IsAuthenticated(c) /\ CurrentUser(c).username = AdminName

LoginRequiredFlash == "Please log in to access this page."

\* @login_required for an anonymous client: redirect to the login view;
\* nothing else changes.
Unauthorized(op, c) ==
    /\ ~IsAuthenticated(c)
    /\ resp' = Response(op, c, 302, LoginRequiredFlash)

-----------------------------------------------------------------------------
(* Initial state: empty tables, empty directories, no session *)

NoExt == [url |-> None, responses |-> <<>>, attempts |-> <<>>,
          thumbnail |-> None, title |-> None]

\* No add_category request of the client is between its check and its commit
NoPending == [name |-> None, user_id |-> 0]

Init ==
    /\ users = {}
    /\ categories = {}
    /\ videos = {}
    /\ session = [c \in Clients |-> 0]
    /\ thumbFiles = {}
    /\ uploadFiles = {}
    /\ now = 0
    /\ resp = Response("none", 0, 0, "")
    /\ pendingCat = [c \in Clients |-> NoPending]
    /\ raced = FALSE
    /\ impersonated = {}
    /\ deletedIds = {}
    /\ ext = NoExt
    /\ served = 0

-----------------------------------------------------------------------------
(* Authentication routes *)

Signup(c, method, rawUsername, rawEmail, rawPassword) ==
    LET username == Strip(FormGet(rawUsername, <<>>))
        email    == Strip(FormGet(rawEmail, <<>>))
        password == FormGet(rawPassword, <<>>)
        newUser  == [id |-> NextId(users), username |-> username,
                     email |-> email,
                     password_hash |-> BcryptGenerate(password)]
    IN
    /\ UNCHANGED <<categories, videos, session, thumbFiles, uploadFiles,
                   now, pendingCat, raced, impersonated, deletedIds, ext>>
    /\ IF IsAuthenticated(c)
       THEN /\ resp' = Response("signup", c, 302, "")
            /\ UNCHANGED users
       ELSE IF method # "POST"
       THEN /\ resp' = Response("signup", c, 200, "")
            /\ UNCHANGED users
       ELSE IF username = <<>> \/ email = <<>> \/ password = <<>>
       THEN /\ resp' = Response("signup", c, 200, "All fields are required.")
            /\ UNCHANGED users
       ELSE IF \E u \in users : u.username = username
       THEN /\ resp' = Response("signup", c, 200, "Username already exists.")
            /\ UNCHANGED users
       ELSE IF \E u \in users : u.email = email
       THEN /\ resp' = Response("signup", c, 200, "Email already exists.")
            /\ UNCHANGED users
       ELSE /\ users' = users \cup {newUser}
            /\ resp' = Response("signup", c, 302,
                          "Account created successfully! Please log in.")

InvalidLoginFlash == "Invalid username/email or password."

\* User.query.filter((username == v) | (email == v)).first(): the query has
\* no ORDER BY, so any matching row may be the first one.
LoginCandidates(v) ==
    {u \in users : u.username = v \/ u.email = v}

Login(c, method, rawUsernameOrEmail, rawPassword) ==
    LET username_or_email == Strip(FormGet(rawUsernameOrEmail, <<>>))
        password == FormGet(rawPassword, <<>>)
        found == LoginCandidates(username_or_email)
    IN
    /\ UNCHANGED <<users, categories, videos, thumbFiles, uploadFiles,
                   now, pendingCat, raced, deletedIds, ext>>
    /\ IF IsAuthenticated(c)
       THEN /\ resp' = Response("login", c, 302, "")
            /\ UNCHANGED session
       ELSE IF method # "POST"
       THEN /\ resp' = Response("login", c, 200, "")
            /\ UNCHANGED session
       ELSE IF username_or_email = <<>> \/ password = <<>>
       THEN /\ resp' = Response("login", c, 200, "Both fields are required.")
            /\ UNCHANGED session
       ELSE IF found = {}
       THEN /\ resp' = Response("login", c, 200, InvalidLoginFlash)
            /\ UNCHANGED session
       ELSE \E user \in found :
              IF BcryptCheck(user.password_hash, password)
              THEN /\ session' = [session EXCEPT ![c] = user.id]
                   /\ resp' = Response("login", c, 302, "")
              ELSE /\ resp' = Response("login", c, 200, InvalidLoginFlash)
                   /\ UNCHANGED session
    /\ impersonated' = (IF session' = session THEN impersonated
                        ELSE impersonated \ {c})

Logout(c) ==
    /\ UNCHANGED <<users, categories, videos, thumbFiles, uploadFiles,
                   now, pendingCat, raced, deletedIds, ext>>
    /\ \/ Unauthorized("logout", c) /\ UNCHANGED session
       \/ /\ IsAuthenticated(c)
          /\ session' = [session EXCEPT ![c] = 0]
          /\ resp' = Response("logout", c, 302, "You have been logged out.")
    /\ impersonated' = (IF session' = session THEN impersonated
                        ELSE impersonated \ {c})

-----------------------------------------------------------------------------
(* Admin routes: @login_required runs first, then @admin_required *)

AdminDashboard(c) ==
    /\ UNCHANGED <<users, categories, videos, session, thumbFiles,
                   uploadFiles, now, pendingCat, raced, impersonated,
                   deletedIds, ext>>
    /\ \/ Unauthorized("admin_dashboard", c)
       \/ /\ IsAuthenticated(c)
          /\ IF ~IsAdmin(c)
             THEN resp' = Response("admin_dashboard", c, 403, "")
             ELSE resp' = [Response("admin_dashboard", c, 200, "")
                             EXCEPT !.body = {u.username : u \in users}]

AdminImpersonate(c, user_id) ==
    /\ UNCHANGED <<users, categories, videos, thumbFiles, uploadFiles,
                   now, pendingCat, raced, deletedIds, ext>>
    /\ \/ Unauthorized("admin_impersonate", c)
          /\ UNCHANGED <<session, impersonated>>
       \/ /\ IsAuthenticated(c)
          /\ IF ~IsAdmin(c)
             THEN /\ resp' = Response("admin_impersonate", c, 403, "")
                  /\ UNCHANGED <<session, impersonated>>
             ELSE IF ~\E u \in users : u.id = user_id
             THEN /\ resp' = Response("admin_impersonate", c, 404, "")
                  /\ UNCHANGED <<session, impersonated>>
             ELSE /\ session' = [session EXCEPT ![c] = user_id]
                  /\ resp' = Response("admin_impersonate", c, 302,
                                      "Now logged in as")
                  /\ impersonated' = impersonated \cup {c}

-----------------------------------------------------------------------------
(* Characters *)

Uppers == <<"A", "B", "C", "D", "E", "F", "G", "H", "I", "J", "K", "L", "M",
            "N", "O", "P", "Q", "R", "S", "T", "U", "V", "W", "X", "Y", "Z">>

Lowers == <<"a", "b", "c", "d", "e", "f", "g", "h", "i", "j", "k", "l", "m",
            "n", "o", "p", "q", "r", "s", "t", "u", "v", "w", "x", "y", "z">>

Digits == <<"0", "1", "2", "3", "4", "5", "6", "7", "8", "9">>

Range(f) == {f[i] : i \in DOMAIN f}

LowerChar(ch) ==
    IF ch \in Range(Uppers)
    THEN Lowers[CHOOSE i \in DOMAIN Uppers : Uppers[i] = ch]
    ELSE ch

\* str.lower()
Lower(s) == [i \in DOMAIN s |-> LowerChar(s[i])]

\* Positions of character ch in s
Positions(s, ch) == {i \in DOMAIN s : s[i] = ch}

\* s.rsplit('.', 1)[1], for an s that holds a '.'
RSplitExt(s) == SubSeq(s, SetMax(Positions(s, ".")) + 1, Len(s))

ALLOWED_EXTENSIONS ==
    { <<"m", "p", "4">>, <<"a", "v", "i">>, <<"m", "o", "v">>,
      <<"m", "k", "v">>, <<"w", "e", "b", "m">>, <<"f", "l", "v">> }

allowed_file(filename) ==
    /\ Positions(filename, ".") # {}
    /\ Lower(RSplitExt(filename)) \in ALLOWED_EXTENSIONS

-----------------------------------------------------------------------------
(* werkzeug.utils.secure_filename, for ASCII names *)

SafeChars == Range(Uppers) \cup Range(Lowers) \cup Range(Digits)
                 \cup {"_", ".", "-"}

\* for sep in os.path.sep, os.path.altsep: filename.replace(sep, " ")
ReplaceSep(s) == [i \in DOMAIN s |-> IF s[i] = "/" THEN " " ELSE s[i]]

\* "_".join(s.split()): runs of whitespace become one "_", none at the ends
RECURSIVE JoinWords(_)
JoinWords(s) ==
    LET t == LStrip(s) IN
    IF t = <<>> THEN <<>>
    ELSE IF Positions(t, " ") = {} THEN t
    ELSE LET k == CHOOSE i \in Positions(t, " ") :
                      \A j \in Positions(t, " ") : i <= j
             rest == JoinWords(SubSeq(t, k, Len(t)))
         IN SubSeq(t, 1, k - 1) \o (IF rest = <<>> THEN <<>> ELSE <<"_">> \o rest)

RECURSIVE KeepSafe(_)
KeepSafe(s) ==
    IF s = <<>> THEN <<>>
    ELSE (IF Head(s) \in SafeChars THEN <<Head(s)>> ELSE <<>>)
             \o KeepSafe(Tail(s))

RECURSIVE StripDots(_)
StripDots(s) ==
    IF s # <<>> /\ Head(s) \in {".", "_"} THEN StripDots(Tail(s))
    ELSE IF s # <<>> /\ s[Len(s)] \in {".", "_"}
    THEN StripDots(SubSeq(s, 1, Len(s) - 1))
    ELSE s

secure_filename(filename) == StripDots(KeepSafe(JoinWords(ReplaceSep(filename))))

-----------------------------------------------------------------------------
(* datetime.now().strftime('%Y%m%d%H%M%S'): the clock counts the seconds  *)
(* of one minute                                                         *)

ClockPrefix == <<"2", "0", "2", "6", "0", "1", "0", "1", "0", "0", "0", "0">>

Strftime(t) == ClockPrefix \o <<Digits[(t \div 10) + 1], Digits[(t % 10) + 1]>>

-----------------------------------------------------------------------------
(* int(category_id) *)

IsIntText(s) ==
    LET t == Strip(s)
        d == IF t # <<>> /\ Head(t) \in {"+", "-"} THEN Tail(t) ELSE t
    IN d # <<>> /\ \A i \in DOMAIN d : d[i] \in Range(Digits)

DigitValue(ch) == (CHOOSE i \in DOMAIN Digits : Digits[i] = ch) - 1

RECURSIVE DigitsValue(_)
DigitsValue(d) ==
    IF d = <<>> THEN 0
    ELSE 10 * DigitsValue(SubSeq(d, 1, Len(d) - 1)) + DigitValue(d[Len(d)])

IntValue(s) ==
    LET t == Strip(s) IN
    IF Head(t) = "-" THEN 0 - DigitsValue(Tail(t))
    ELSE IF Head(t) = "+" THEN DigitsValue(Tail(t))
    ELSE DigitsValue(t)

-----------------------------------------------------------------------------
(* extract_video_id: re.search of the two patterns, in order *)

IdChars == Range(Uppers) \cup Range(Lowers) \cup Range(Digits) \cup {"_", "-"}

VideoIdLen == 11

\* The literal lit stands in s at position i
MatchLit(s, i, lit) ==
    /\ i >= 1
    /\ i + Len(lit) - 1 <= Len(s)
    /\ \A k \in DOMAIN lit : s[i + k - 1] = lit[k]

\* ([a-zA-Z0-9_-]{11}) matches in s at position j
IdAt(s, j) ==
    /\ j >= 1
    /\ j + VideoIdLen - 1 <= Len(s)
    /\ \A k \in 0 .. (VideoIdLen - 1) : s[j + k] \in IdChars

IdFrom(s, j) == SubSeq(s, j, j + VideoIdLen - 1)

SetMin(S) == CHOOSE x \in S : \A y \in S : x <= y

WatchV == <<"y", "o", "u", "t", "u", "b", "e", ".", "c", "o", "m", "/",
            "w", "a", "t", "c", "h", "?", "v", "=">>

ShortHost == <<"y", "o", "u", "t", "u", ".", "b", "e", "/">>

EmbedPath == <<"y", "o", "u", "t", "u", "b", "e", ".", "c", "o", "m", "/",
               "e", "m", "b", "e", "d", "/">>

WatchQuery == <<"y", "o", "u", "t", "u", "b", "e", ".", "c", "o", "m", "/",
                "w", "a", "t", "c", "h", "?">>

VParam == <<"v", "=">>

\* (?:youtube\.com\/watch\?v=|youtu\.be\/|youtube\.com\/embed\/)(id)
Pattern1Alternatives == <<WatchV, ShortHost, EmbedPath>>

Pattern1At(s, i) ==
    {a \in DOMAIN Pattern1Alternatives :
        /\ MatchLit(s, i, Pattern1Alternatives[a])
        /\ IdAt(s, i + Len(Pattern1Alternatives[a]))}

Pattern1Search(s) ==
    LET starts == {i \in DOMAIN s : Pattern1At(s, i) # {}} IN
    IF starts = {} THEN None
    ELSE LET i == SetMin(starts)
             a == SetMin(Pattern1At(s, i))
         IN IdFrom(s, i + Len(Pattern1Alternatives[a]))

\* youtube\.com\/watch\?.*v=(id): '.' matches no newline, '.*' is greedy
Pattern2Ends(s, i) ==
    {j \in DOMAIN s :
        /\ j >= i + Len(WatchQuery)
        /\ MatchLit(s, j, VParam)
        /\ IdAt(s, j + Len(VParam))
        /\ \A k \in (i + Len(WatchQuery)) .. (j - 1) : s[k] # "\n"}

Pattern2Search(s) ==
    LET starts == {i \in DOMAIN s :
                      MatchLit(s, i, WatchQuery) /\ Pattern2Ends(s, i) # {}}
    IN
    IF starts = {} THEN None
    ELSE LET i == SetMin(starts)
             j == SetMax(Pattern2Ends(s, i))
         IN IdFrom(s, j + Len(VParam))

extract_video_id(youtube_url) ==
    CHOOSE video_id \in
       { IF m # None THEN m ELSE Pattern2Search(youtube_url) :
            m \in {Pattern1Search(youtube_url)} } : TRUE

-----------------------------------------------------------------------------
(* get_youtube_title: one oEmbed request, whose outcome is an input *)

DefaultYoutubeTitle ==
    <<"Y", "o", "u", "T", "u", "b", "e", " ", "V", "i", "d", "e", "o">>

\* An oEmbed outcome: the request raised, or answered status with a JSON
\* object whose 'title' is title (None: the object has no 'title' key)
get_youtube_title(oembed) ==
    IF ~oembed.raises /\ oembed.status = 200
    THEN (IF oembed.title = None THEN DefaultYoutubeTitle ELSE oembed.title)
    ELSE DefaultYoutubeTitle

-----------------------------------------------------------------------------
(* extract_youtube_thumbnail *)

\* thumbnail_urls, by the file name that tells the candidates apart
thumbnail_urls ==
    <<"maxresdefault", "sddefault", "hqdefault", "mqdefault", "default">>

MinThumbnailBytes == 1000

\* The outcome of fetching one candidate: requests.get raised, or answered
\* status with length bytes of content, which PIL can decode and save
\* (image) or not (Image.open / img.save raise).
\* Mutant: the size test of line 156 is left out
AcceptedAnySize(r) ==
    /\ ~r.raises
    /\ r.status = 200
    /\ r.image

Accepted(r) ==
    /\ ~r.raises
    /\ r.status = 200 /\ r.length > MinThumbnailBytes
    /\ r.image

\* The candidates the loop fetches from candidate i on, in order: it stops
\* at the first accepted one and goes on after any other outcome.
RECURSIVE Attempts(_, _)
Attempts(rs, i) ==
    IF i > Len(thumbnail_urls) THEN <<>>
    ELSE IF Accepted(rs[i]) THEN <<thumbnail_urls[i]>>
    ELSE <<thumbnail_urls[i]>> \o Attempts(rs, i + 1)

YoutubeThumbnailName(video_id, t) ==
    <<"y", "t", "_">> \o video_id \o <<"_">> \o Strftime(t)
        \o <<".", "j", "p", "g">>

\* The loop over thumbnail_urls (lines 153-166) for an identifier found
FetchThumbnail(video_id, rs, t) ==
    CHOOSE got \in
       { [attempts |-> attempts,
          thumbnail |-> IF Accepted(rs[Len(attempts)])
                        THEN YoutubeThumbnailName(video_id, t)
                        ELSE None] : attempts \in {Attempts(rs, 1)} } : TRUE

\* The result (thumbnail_filename, video_title) with the candidates fetched
extract_youtube_thumbnail(youtube_url, oembed, rs, t) ==
    CHOOSE result \in
       { IF video_id = None
         THEN [url |-> youtube_url, responses |-> rs, attempts |-> <<>>,
               thumbnail |-> None, title |-> None]
         ELSE CHOOSE found \in
                 { [url |-> youtube_url, responses |-> rs,
                    attempts |-> got.attempts,
                    thumbnail |-> got.thumbnail,
                    title |-> get_youtube_title(oembed)] :
                      got \in {FetchThumbnail(video_id, rs, t)} } : TRUE :
            video_id \in {extract_video_id(youtube_url)} } : TRUE

-----------------------------------------------------------------------------
(* generate_video_thumbnail: whether OpenCV opens the file and reads the  *)
(* frame is an input                                                     *)

VideoThumbnailName(t) ==
    <<"v", "i", "d", "e", "o", "_">> \o Strftime(t) \o <<".", "j", "p", "g">>

generate_video_thumbnail(decodes, t) ==
    IF decodes THEN VideoThumbnailName(t) ELSE None

-----------------------------------------------------------------------------
(* Category and video routes *)

\* Mutant: the existence query finds nothing
CategoryExistsUnchecked(name, user_id) == FALSE

CategoryExists(name, user_id) ==
    \E cat \in categories : cat.name = name /\ cat.user_id = user_id

NewCategory(name, user_id) ==
    [id |-> NextId(categories), name |-> name, user_id |-> user_id]

\* add_category handled start to finish with no other request in between
AddCategory(c, rawName) ==
    LET category_name == Strip(FormGet(rawName, <<>>)) IN
    /\ UNCHANGED <<users, videos, session, thumbFiles, uploadFiles, now,
                   pendingCat, raced, impersonated, deletedIds, ext>>
    /\ \/ Unauthorized("add_category", c) /\ UNCHANGED categories
       \/ /\ IsAuthenticated(c)
          /\ resp' = Response("add_category", c, 302, "")
          /\ IF category_name # <<>>
                /\ ~CategoryExists(category_name, session[c])
             THEN categories' = categories
                        \cup {NewCategory(category_name, session[c])}
             ELSE UNCHANGED categories

\* add_category up to the result of the existence query (line 307): the
\* request either answers at once or goes on to insert.
AddCategoryCheck(c, rawName) ==
    LET category_name == Strip(FormGet(rawName, <<>>)) IN
    /\ pendingCat[c] = NoPending
    /\ UNCHANGED <<users, categories, videos, session, thumbFiles,
                   uploadFiles, now, impersonated, deletedIds, ext>>
    /\ \/ Unauthorized("add_category", c) /\ UNCHANGED <<pendingCat, raced>>
       \/ /\ IsAuthenticated(c)
          /\ IF category_name # <<>>
                /\ ~CategoryExists(category_name, session[c])
             THEN /\ pendingCat' = [pendingCat EXCEPT ![c] =
                         [name |-> category_name, user_id |-> session[c]]]
                  /\ raced' = (raced \/ \E d \in Clients \ {c} :
                         pendingCat[d] =
                           [name |-> category_name, user_id |-> session[c]])
                  /\ UNCHANGED resp
             ELSE /\ resp' = Response("add_category", c, 302, "")
                  /\ UNCHANGED <<pendingCat, raced>>

\* add_category from the insert to the redirect (lines 309-312)
AddCategoryCommit(c) ==
    /\ pendingCat[c] # NoPending
    /\ categories' = categories
          \cup {NewCategory(pendingCat[c].name, pendingCat[c].user_id)}
    /\ pendingCat' = [pendingCat EXCEPT ![c] = NoPending]
    /\ resp' = Response("add_category", c, 302, "")
    /\ UNCHANGED <<users, videos, session, thumbFiles, uploadFiles, now,
                   raced, impersonated, deletedIds, ext>>

\* Video(title=..., youtube_url=..., is_youtube=True, ...) of add_youtube
YoutubeVideo(id, got, youtube_url, category_id, user_id) ==
    [id |-> id,
     title |-> IF Truthy(got.title) THEN got.title ELSE DefaultYoutubeTitle,
     thumbnail_path |-> IF Truthy(got.thumbnail) THEN got.thumbnail ELSE <<>>,
     video_path |-> None,
     youtube_url |-> youtube_url,
     is_youtube |-> TRUE,
     category_id |-> IntValue(category_id),
     user_id |-> user_id]

AddYoutube(c, rawUrl, rawCategory, oembed, rs) ==
    LET youtube_url == rawUrl
        category_id == rawCategory
    IN
    /\ UNCHANGED <<users, categories, session, uploadFiles, now, pendingCat,
                   raced, impersonated, deletedIds, ext>>
    /\ \/ Unauthorized("add_youtube", c) /\ UNCHANGED <<videos, thumbFiles>>
       \/ /\ IsAuthenticated(c)
          /\ IF ~(Truthy(youtube_url) /\ Truthy(category_id))
             THEN /\ resp' = Response("add_youtube", c, 302, "")
                  /\ UNCHANGED <<videos, thumbFiles>>
             ELSE \E got \in {extract_youtube_thumbnail(youtube_url, oembed,
                                                        rs, now)} :
                  /\ thumbFiles' = IF Truthy(got.thumbnail)
                                   THEN thumbFiles \cup {got.thumbnail}
                                   ELSE thumbFiles
                  /\ IF ~(Truthy(got.thumbnail) \/ Truthy(got.title))
                     THEN /\ resp' = Response("add_youtube", c, 302, "")
                          /\ UNCHANGED videos
                     ELSE IF ~IsIntText(category_id)
                     THEN /\ resp' = Response("add_youtube", c, 500, "")
                          /\ UNCHANGED videos
                     ELSE /\ videos' = videos \cup
                               {YoutubeVideo(NextId(videos), got, youtube_url,
                                             category_id, session[c])}
                          /\ resp' = Response("add_youtube", c, 302, "")

DefaultUploadTitle ==
    <<"U", "n", "t", "i", "t", "l", "e", "d", " ", "V", "i", "d", "e", "o">>

\* Mutant: the upload row is given an empty youtube_url instead of none
UploadedVideoEmptyUrl(id, video_title, thumbnail, filename, category, owner) ==
    [id |-> id,
     title |-> IF video_title # <<>> THEN video_title ELSE filename,
     thumbnail_path |-> IF Truthy(thumbnail) THEN thumbnail ELSE <<>>,
     video_path |-> filename,
     youtube_url |-> <<>>,
     is_youtube |-> FALSE,
     category_id |-> IntValue(category),
     user_id |-> owner]

\* Video(title=..., video_path=filename, is_youtube=False, ...) of
\* upload_video
UploadedVideo(id, video_title, thumbnail, filename, category, owner) ==
    [id |-> id,
     title |-> IF video_title # <<>> THEN video_title ELSE filename,
     thumbnail_path |-> IF Truthy(thumbnail) THEN thumbnail ELSE <<>>,
     video_path |-> filename,
     youtube_url |-> None,
     is_youtube |-> FALSE,
     category_id |-> IntValue(category),
     user_id |-> owner]

UploadVideo(c, rawFile, rawCategory, rawTitle, decodes) ==
    LET category_id == rawCategory
        video_title == Strip(FormGet(rawTitle, DefaultUploadTitle))
    IN
    /\ UNCHANGED <<users, categories, session, now, pendingCat, raced,
                   impersonated,
                   deletedIds, ext>>
    /\ \/ /\ Unauthorized("upload_video", c)
          /\ UNCHANGED <<videos, thumbFiles, uploadFiles>>
       \/ /\ IsAuthenticated(c)
          /\ IF rawFile = None
             THEN /\ resp' = Response("upload_video", c, 302, "")
                  /\ UNCHANGED <<videos, thumbFiles, uploadFiles>>
             ELSE IF ~(rawFile # <<>> /\ allowed_file(rawFile)
                         /\ Truthy(category_id))
             THEN /\ resp' = Response("upload_video", c, 302, "")
                  /\ UNCHANGED <<videos, thumbFiles, uploadFiles>>
             ELSE \E filename \in {Strftime(now) \o <<"_">>
                                       \o secure_filename(rawFile)},
                     thumbnail_filename \in
                         {generate_video_thumbnail(decodes, now)} :
                  /\ uploadFiles' = uploadFiles \cup {filename}
                  /\ thumbFiles' = IF Truthy(thumbnail_filename)
                                   THEN thumbFiles \cup {thumbnail_filename}
                                   ELSE thumbFiles
                  /\ IF ~IsIntText(category_id)
                     THEN /\ resp' = Response("upload_video", c, 500, "")
                          /\ UNCHANGED videos
                     ELSE /\ videos' = videos \cup
                               {UploadedVideo(NextId(videos), video_title,
                                              thumbnail_filename, filename,
                                              category_id, session[c])}
                          /\ resp' = Response("upload_video", c, 302, "")

\* Mutant: the file is left where it is
RemoveFileSkipped(files, path, removed) == files

\* if os.path.exists(path): try: os.remove(path) except Exception: pass
\* removed: whether os.remove succeeds
RemoveFile(files, path, removed) ==
    IF path \in files /\ removed THEN files \ {path} ELSE files

DeleteVideo(c, video_id, thumbRemoved, fileRemoved) ==
    LET owned == {v \in videos : v.id = video_id /\ v.user_id = session[c]}
    IN
    /\ UNCHANGED <<users, categories, session, now, pendingCat, raced,
                   impersonated, ext>>
    /\ \/ /\ Unauthorized("delete_video", c)
          /\ UNCHANGED <<videos, thumbFiles, uploadFiles, deletedIds>>
       \/ /\ IsAuthenticated(c)
          /\ IF owned = {}
             THEN /\ resp' = Response("delete_video", c, 404, "")
                  /\ UNCHANGED <<videos, thumbFiles, uploadFiles, deletedIds>>
             ELSE LET video == CHOOSE v \in owned : TRUE IN
                  /\ thumbFiles' =
                        IF video.thumbnail_path # <<>>
                        THEN RemoveFile(thumbFiles, video.thumbnail_path,
                                        thumbRemoved)
                        ELSE thumbFiles
                  /\ uploadFiles' =
                        IF ~video.is_youtube /\ Truthy(video.video_path)
                        THEN RemoveFile(uploadFiles, video.video_path,
                                        fileRemoved)
                        ELSE uploadFiles
                  /\ videos' = videos \ {video}
                  /\ deletedIds' = deletedIds \cup {video_id}
                  /\ resp' = Response("delete_video", c, 302, "")

\* A second passes on the server's clock
Tick ==
    /\ now < MaxTime
    /\ now' = now + 1
    /\ UNCHANGED <<users, categories, videos, session, thumbFiles,
                   uploadFiles, resp, pendingCat, raced, impersonated,
                   deletedIds, ext>>

\* extract_youtube_thumbnail called on its own, its result kept
ExtractThumbnail(youtube_url, oembed, rs) ==
    /\ ext' = extract_youtube_thumbnail(youtube_url, oembed, rs, now)
    /\ UNCHANGED <<users, categories, videos, session, thumbFiles,
                   uploadFiles, now, resp, pendingCat, raced, impersonated,
                   deletedIds>>

-----------------------------------------------------------------------------
(* Request inputs *)

Methods == {"GET", "POST"}

Text_u_at_x == <<"u", "@", "x">>

Text_e_at_x == <<"e", "@", "x">>

Text_p1 == <<"p", "1">>

Text_p2 == <<"p", "2">>

\* 'username' / 'username_or_email' fields: a name that is also an address
SignupNames == {AdminName, <<" ">> \o AdminName, Text_u_at_x, <<" ">>, None}

SignupEmails == {Text_u_at_x, Text_e_at_x, None}

Passwords == {Text_p1, Text_p2, None}

LoginNames == {AdminName, Text_u_at_x, Text_e_at_x, <<>>}

\* Two full sign-up forms, for the runs about categories and videos
Accounts ==
    { [username |-> AdminName, email |-> Text_e_at_x, password |-> Text_p1],
      [username |-> <<"b", "o", "b">>, email |-> Text_u_at_x,
       password |-> Text_p2] }

Text_c1 == <<"c", "1">>

CategoryNames == {Text_c1, Text_c1 \o <<" ">>, <<>>, None}

\* 'category_id' fields
CategoryIds == {<<"1">>, <<"2">>, <<"x">>, None}

Https == <<"h", "t", "t", "p", "s", ":", "/", "/">>

Www == <<"w", "w", "w", ".">>

SomeVideoId == <<"d", "Q", "w", "4", "w", "9", "W", "g", "X", "c", "Q">>

WatchUrl == Https \o Www \o WatchV \o SomeVideoId

WatchUrlLateV ==
    Https \o Www \o WatchQuery \o <<"t", "=", "1", "&">> \o VParam
        \o SomeVideoId

ShortUrl == Https \o ShortHost \o SomeVideoId

EmbedUrl == Https \o Www \o EmbedPath \o SomeVideoId

\* no pattern matches: another site, and a ten-character identifier
OtherSiteUrl ==
    Https \o <<"v", "i", "m", "e", "o", ".", "c", "o", "m", "/", "7", "6">>

ShortIdUrl == Https \o ShortHost \o SubSeq(SomeVideoId, 1, 10)

Text_T == <<"T">>

\* oEmbed outcomes: a title, an empty title, no 'title' key, 404, a timeout
OembedOutcomes ==
    { [raises |-> FALSE, status |-> 200, title |-> Text_T],
      [raises |-> FALSE, status |-> 200, title |-> <<>>],
      [raises |-> FALSE, status |-> 200, title |-> None],
      [raises |-> FALSE, status |-> 404, title |-> None],
      [raises |-> TRUE, status |-> 0, title |-> None] }

Timeout == [raises |-> TRUE, status |-> 0, length |-> 0, image |-> FALSE]

NotFound == [raises |-> FALSE, status |-> 404, length |-> 1001, image |-> FALSE]

Stub == [raises |-> FALSE, status |-> 200, length |-> 1000, image |-> TRUE]

Picture == [raises |-> FALSE, status |-> 200, length |-> 1001, image |-> TRUE]

Garbage == [raises |-> FALSE, status |-> 200, length |-> 1001, image |-> FALSE]

\* Outcomes of fetching one thumbnail candidate
ThumbnailOutcomes == {Timeout, NotFound, Stub, Picture, Garbage}

\* Every outcome of the five fetches
AllThumbnailRuns == [DOMAIN thumbnail_urls -> ThumbnailOutcomes]

\* The fetches where candidates before the k-th all end as bad and the
\* others are pictures (k = 6: no candidate is accepted)
ThumbnailRuns ==
    { [i \in DOMAIN thumbnail_urls |-> IF i < k THEN bad ELSE Picture] :
        k \in {1, 3, 6}, bad \in {NotFound, Garbage} }

-----------------------------------------------------------------------------
(* Specifications *)

\* Sign-up of one of the two accounts and log-in with its own password
SignupAccount(c) ==
    \E a \in Accounts : Signup(c, "POST", a.username, a.email, a.password)

LoginAccount(c) ==
    \E a \in Accounts : Login(c, "POST", a.username, a.password)

RoomForUser == Cardinality(users) < MaxUsers

RoomForCategory == Cardinality(categories) < MaxCategories

RoomForVideo == Cardinality(videos) < MaxVideos

\* The accounts and their sessions: sign-up, log-in, log-out, admin routes
NextAuth ==
    /\ UNCHANGED served
    /\ \E c \in Clients :
        \/ /\ RoomForUser
           /\ \E m \in Methods, u \in SignupNames, e \in SignupEmails,
                 p \in Passwords : Signup(c, m, u, e, p)
        \/ \E m \in Methods, v \in LoginNames, p \in Passwords :
              Login(c, m, v, p)
        \/ Logout(c)
        \/ AdminDashboard(c)
        \/ \E id \in 1 .. (MaxUsers + 1) : AdminImpersonate(c, id)

SpecAuth == Init /\ [][NextAuth]_vars

\* add_category requests of two clients, interleaved at the existence query
NextCat ==
    /\ UNCHANGED served
    /\ \E c \in Clients :
        \/ RoomForUser /\ SignupAccount(c)
        \/ LoginAccount(c)
        \/ \E n \in CategoryNames : AddCategoryCheck(c, n)
        \/ RoomForCategory /\ AddCategoryCommit(c)

SpecCat == Init /\ [][NextCat]_vars

\* One call of extract_youtube_thumbnail, over every outcome of the fetches
NextThumb ==
    /\ ext = NoExt
    /\ UNCHANGED served
    /\ \E url \in {WatchUrl, OtherSiteUrl}, o \in OembedOutcomes,
          rs \in AllThumbnailRuns : ExtractThumbnail(url, o, rs)

SpecThumb == Init /\ [][NextThumb]_vars

OembedTimeout == [raises |-> TRUE, status |-> 0, title |-> None]

FileA == <<"a", ".", "m", "p", "4">>

\* 'video_file' names: one per extension of the allow-list in mixed case,
\* and names that must be turned away
UploadNames ==
    { FileA,
      <<"b", ".", "A", "V", "I">>,
      <<"c", ".", "M", "o", "v">>,
      <<"d", ".", "m", "k", "v">>,
      <<"e", ".", "w", "e", "b", "m">>,
      <<"m", "y", " ", "f", ".", "F", "l", "V">>,
      <<"g", ".", "t", "x", "t">>,
      <<"m", "p", "4">>,
      <<"h", ".", "m", "p", "4", ".", "e", "x", "e">>,
      <<"i", ".", "m", "p", "3">>,
      <<>>,
      None }

\* The server handles one more request
Served(max) == served < max /\ served' = served + 1

TheAccount ==
    [username |-> AdminName, email |-> Text_e_at_x, password |-> Text_p1]

SignupTheAccount(c) ==
    Signup(c, "POST", TheAccount.username, TheAccount.email,
           TheAccount.password)

LoginTheAccount(c) ==
    Login(c, "POST", TheAccount.username, TheAccount.password)

\* Videos of one account: requests handled one at a time, the clock running
Next ==
    \/ /\ Served(MaxRequests)
       /\ \E c \in {1} :
           \/ RoomForUser /\ SignupTheAccount(c)
           \/ LoginTheAccount(c)
           \/ /\ RoomForVideo
              /\ \E cat \in {<<"1">>, None}, rs \in ThumbnailRuns :
                    AddYoutube(c, WatchUrl, cat, OembedTimeout, rs)
           \/ /\ RoomForVideo
              /\ \E cat \in {<<"1">>, None}, decodes \in BOOLEAN :
                    UploadVideo(c, FileA, cat, None, decodes)
           \/ \E id \in 1 .. MaxVideos, tr \in BOOLEAN, fr \in BOOLEAN :
                 DeleteVideo(c, id, tr, fr)
    \/ Tick /\ UNCHANGED served

Spec == Init /\ [][Next]_vars

\* Categories and videos of two accounts, each on its own client
NextScope ==
    /\ Served(MaxRequests)
    /\ \E c \in Clients :
        \/ RoomForUser /\ SignupAccount(c)
        \/ LoginAccount(c)
        \/ Logout(c)
        \/ RoomForCategory /\ AddCategory(c, Text_c1)
        \/ /\ RoomForVideo
           /\ \E cat \in CategoryIds :
                 AddYoutube(c, WatchUrl, cat, OembedTimeout,
                            [i \in DOMAIN thumbnail_urls |-> NotFound])
        \/ /\ RoomForVideo
           /\ \E cat \in CategoryIds :
                 UploadVideo(c, FileA, cat, None, FALSE)
        \/ \E id \in 1 .. MaxVideos : DeleteVideo(c, id, TRUE, TRUE)

SpecScope == Init /\ [][NextScope]_vars

\* add_youtube over the URLs, the category ids and the outcomes of the
\* oEmbed and thumbnail fetches
NextYoutube ==
    \/ /\ Served(MaxAddRequests)
       /\ \E c \in {1} :
           \/ RoomForUser /\ SignupTheAccount(c)
           \/ LoginTheAccount(c)
           \/ /\ RoomForVideo
              /\ \E url \in {WatchUrl, WatchUrlLateV, ShortUrl, EmbedUrl,
                            OtherSiteUrl, ShortIdUrl, <<>>, None},
                    cat \in CategoryIds, o \in OembedOutcomes,
                    rs \in ThumbnailRuns :
                    AddYoutube(c, url, cat, o, rs)
    \/ Tick /\ UNCHANGED served

SpecYoutube == Init /\ [][NextYoutube]_vars

\* upload_video over the file names, the category ids and the titles
NextUpload ==
    \/ /\ Served(MaxAddRequests)
       /\ \E c \in {1} :
           \/ RoomForUser /\ SignupTheAccount(c)
           \/ LoginTheAccount(c)
           \/ /\ RoomForVideo
              /\ \E f \in UploadNames, cat \in {<<"1">>, <<"x">>, <<>>, None},
                    decodes \in BOOLEAN :
                    UploadVideo(c, f, cat, None, decodes)
    \/ Tick /\ UNCHANGED served

SpecUpload == Init /\ [][NextUpload]_vars

-----------------------------------------------------------------------------
(* Properties *)

\* C1: every stored Video row has exactly one of video_path and youtube_url:
\* a YouTube row has its URL and no video_path, an uploaded row has its
\* video_path and no URL.
C1_ExactlyOneSource ==
    \A v \in videos :
        IF v.is_youtube
        THEN v.youtube_url # None /\ v.youtube_url # <<>> /\ v.video_path = None
        ELSE v.video_path # None /\ v.video_path # <<>> /\ v.youtube_url = None

\* Rows of both kinds stand in the table after a delete
C1_Witness ==
    /\ deletedIds # {}
    /\ \E v \in videos : v.is_youtube
    /\ \E v \in videos : ~v.is_youtube

\* The candidates in the order of the claim
C2_Order == <<"maxresdefault", "sddefault", "hqdefault", "mqdefault", "default">>

C2_InOrder ==
    /\ Len(ext.attempts) <= Len(C2_Order)
    /\ \A i \in DOMAIN ext.attempts : ext.attempts[i] = C2_Order[i]

\* The fetch answered, with a status other than 200 or at most 1000 bytes
C2_Refused(r) == ~r.raises /\ (r.status # 200 \/ r.length <= 1000)

\* The fetch answered 200 with more than 1000 bytes
C2_LargeSuccess(r) == ~r.raises /\ r.status = 200 /\ r.length > 1000

\* C2 as claimed: the candidates are tried in the fixed order from
\* maxresdefault; the loop goes on to the next candidate only after a
\* non-success status or a payload of at most 1000 bytes, and stops at the
\* first candidate answered with success and a larger payload.
C2_Original ==
    ext # NoExt =>
        /\ C2_InOrder
        /\ \A i \in DOMAIN ext.attempts :
              i < Len(ext.attempts) => C2_Refused(ext.responses[i])
        /\ \A i \in DOMAIN ext.attempts :
              C2_LargeSuccess(ext.responses[i]) => i = Len(ext.attempts)

\* C2 amended: the loop also goes on after a fetch that raised and after a
\* large 200 payload that could not be decoded and saved; it stops at the
\* first candidate that is answered with success and a larger payload and
\* is decoded and saved, and only then is there a thumbnail.
C2_OrderAndStop ==
    ext # NoExt =>
        /\ C2_InOrder
        /\ \A i \in DOMAIN ext.attempts :
              i < Len(ext.attempts) =>
                 \/ C2_Refused(ext.responses[i])
                 \/ ext.responses[i].raises
                 \/ ~ext.responses[i].image
        /\ \A i \in DOMAIN ext.attempts :
              (C2_LargeSuccess(ext.responses[i]) /\ ext.responses[i].image)
                 => i = Len(ext.attempts)
        /\ ext.thumbnail # None <=>
              /\ ext.attempts # <<>>
              /\ C2_LargeSuccess(ext.responses[Len(ext.attempts)])
              /\ ext.responses[Len(ext.attempts)].image
        /\ (ext.attempts = <<>>) <=> (ext.title = None)
        /\ (ext.attempts # <<>> /\ ext.thumbnail = None)
              => Len(ext.attempts) = Len(C2_Order)

\* The third candidate is taken after a stub and an undecodable payload
C2_Witness ==
    /\ ext # NoExt
    /\ Len(ext.attempts) = 3
    /\ ext.responses[1].length = 1000 /\ ext.responses[1].status = 200
    /\ ext.responses[2].status = 200 /\ ~ext.responses[2].image
    /\ ext.thumbnail # None

\* The URLs of the runs that hold a watch, short or embed address with an
\* eleven-character identifier
C3_MatchingUrls == {WatchUrl, WatchUrlLateV, ShortUrl, EmbedUrl}

C3_Urls ==
    {WatchUrl, WatchUrlLateV, ShortUrl, EmbedUrl, OtherSiteUrl, ShortIdUrl}

\* C3 as claimed: an add_youtube request that comes to thumbnail acquisition
\* records a Video row exactly when the acquisition returns a thumbnail file
\* name or a title; for a URL that matches no pattern both are absent, the
\* rows stay as they are and the request ends in the usual redirect.
C3_RecordsIffAcquired ==
    [][ \A c \in Clients :
          (resp'.op = "add_youtube" /\ resp'.c = c /\ IsAuthenticated(c)) =>
             \A url \in C3_Urls, cat \in CategoryIds \ {None},
                o \in OembedOutcomes, rs \in ThumbnailRuns :
                AddYoutube(c, url, cat, o, rs) =>
                   LET got == extract_youtube_thumbnail(url, o, rs, now)
                       some == \/ got.thumbnail \notin {None, <<>>}
                               \/ got.title \notin {None, <<>>}
                   IN /\ (videos' # videos) <=> some
                      /\ url \notin C3_MatchingUrls =>
                            /\ ~some
                            /\ videos' = videos
                            /\ resp'.status = 302 ]_vars

\* C4 as claimed: a delete by the owner removes the row, the thumbnail file
\* and, for an upload, the source file (a failed file removal is passed
\* over and the row still goes); any later delete of an id once deleted
\* answers 404 and changes nothing.
C4_Original ==
    [][ \A c \in Clients :
          (resp'.op = "delete_video" /\ resp'.c = c /\ IsAuthenticated(c)) =>
             \A id \in 1 .. MaxVideos, tr \in BOOLEAN, fr \in BOOLEAN :
                DeleteVideo(c, id, tr, fr) =>
                   /\ \A v \in videos :
                         (v.id = id /\ v.user_id = session[c]) =>
                            /\ v \notin videos'
                            /\ resp'.status = 302
                            /\ tr => v.thumbnail_path \notin thumbFiles'
                            /\ (fr /\ ~v.is_youtube)
                                  => v.video_path \notin uploadFiles'
                   /\ id \in deletedIds =>
                         /\ resp'.status = 404
                         /\ UNCHANGED <<videos, thumbFiles, uploadFiles>> ]_vars

\* C4 amended: a delete by the owner removes the row, the thumbnail file
\* and, for an upload, the source file (a failed file removal is passed
\* over and the row still goes), and no row with that id is left; a delete
\* of an id under which the requester owns no row answers 404 and changes
\* nothing.  An id once deleted is given out again when it was the largest.
C4_DeleteRemoves ==
    [][ \A c \in Clients :
          (resp'.op = "delete_video" /\ resp'.c = c /\ IsAuthenticated(c)) =>
             \A id \in 1 .. MaxVideos, tr \in BOOLEAN, fr \in BOOLEAN :
                DeleteVideo(c, id, tr, fr) =>
                   /\ \A v \in videos :
                         (v.id = id /\ v.user_id = session[c]) =>
                            /\ videos' = videos \ {v}
                            /\ ~\E w \in videos' : w.id = id
                            /\ resp'.status = 302
                            /\ tr => v.thumbnail_path \notin thumbFiles'
                            /\ (fr /\ ~v.is_youtube)
                                  => v.video_path \notin uploadFiles'
                            /\ v.is_youtube => uploadFiles' = uploadFiles
                            /\ thumbFiles' \subseteq thumbFiles
                            /\ uploadFiles' \subseteq uploadFiles
                   /\ (~\E v \in videos : v.id = id /\ v.user_id = session[c])
                         => /\ resp'.status = 404
                            /\ UNCHANGED <<videos, thumbFiles, uploadFiles>> ]_vars

\* A row was deleted while the removal of its files failed, and the delete
\* asked again was not found
C4_Witness ==
    /\ resp.op = "delete_video" /\ resp.status = 404
    /\ deletedIds # {}
    /\ videos = {}
    /\ thumbFiles # {} /\ uploadFiles # {}

\* The file names of the runs whose extension is in the allow-list
C5_AllowListed ==
    { <<"a", ".", "m", "p", "4">>, <<"b", ".", "A", "V", "I">>,
      <<"c", ".", "M", "o", "v">>, <<"d", ".", "m", "k", "v">>,
      <<"e", ".", "w", "e", "b", "m">>,
      <<"m", "y", " ", "f", ".", "F", "l", "V">> }

\* C5 as claimed, for the uploads that carry a category_id: an upload
\* whose file name has an allow-listed extension (in any case) succeeds and
\* creates a Video row; an upload with any other extension, or none, is
\* rejected, creating no row and saving no file.
C5_UploadByExtension ==
    [][ \A c \in Clients :
          (resp'.op = "upload_video" /\ resp'.c = c /\ IsAuthenticated(c)) =>
             \A f \in UploadNames \ {None, <<>>},
                cat \in {<<"1">>, <<"x">>}, d \in BOOLEAN :
                UploadVideo(c, f, cat, None, d) =>
                   IF f \in C5_AllowListed
                   THEN /\ Cardinality(videos') = Cardinality(videos) + 1
                        /\ resp'.status = 302
                   ELSE /\ videos' = videos
                        /\ uploadFiles' = uploadFiles ]_vars

\* C6 as claimed: for every account of every reachable set of accounts, a
\* login with its username and a wrong password leaves the session
\* anonymous with the generic message, and a login with its email and its
\* password authenticates the session as that account.
C6_LoginByNameOrEmail ==
    [][ \A c \in Clients :
          (resp'.op = "login" /\ resp'.c = c /\ session[c] = 0) =>
             \A u \in users, p \in Passwords \ {None} :
                /\ (/\ Login(c, "POST", u.username, p)
                    /\ ~BcryptCheck(u.password_hash, p))
                      => /\ session'[c] = 0
                         /\ resp'.flash = InvalidLoginFlash
                /\ (/\ Login(c, "POST", u.email, p)
                    /\ BcryptCheck(u.password_hash, p))
                      => session'[c] = u.id ]_vars

C7_AdminRoutes == {"admin_dashboard", "admin_impersonate"}

\* The session of client c belongs to the account named 'admin'
C7_CallerNamedAdmin(c) ==
    \E u \in users :
       u.id = session[c] /\ u.username = <<"a", "d", "m", "i", "n">>

\* C7 as claimed: a request to an admin route by a caller that is not the
\* account named 'admin' is answered 403, lists no users and leaves the
\* session identity as it was.
C7_Original ==
    [][ \A c \in Clients :
          (/\ resp'.op \in C7_AdminRoutes /\ resp'.c = c
           /\ ~C7_CallerNamedAdmin(c))
             => /\ resp'.status = 403
                /\ resp'.body = {}
                /\ session' = session ]_vars

\* C7 amended: a request to an admin route by a logged-in caller that is
\* not the account named 'admin' is answered 403, and one by an anonymous
\* caller is redirected (302) to the login page; neither lists the users
\* nor changes the session identity.  The same holds for a session that
\* the admin has turned into a non-admin user's by impersonation.
C7_AdminOnly ==
    [][ \A c \in Clients :
          (/\ resp'.op \in C7_AdminRoutes /\ resp'.c = c
           /\ ~C7_CallerNamedAdmin(c))
             => /\ session[c] # 0 => resp'.status = 403
                /\ session[c] = 0 => /\ resp'.status = 302
                                     /\ resp'.flash = LoginRequiredFlash
                /\ resp'.body = {}
                /\ session' = session ]_vars

\* A session obtained by impersonation was refused on an admin route
C7_Witness ==
    \E c \in impersonated :
       /\ resp.op \in C7_AdminRoutes /\ resp.c = c /\ resp.status = 403
       /\ session[c] # 0
       /\ ~C7_CallerNamedAdmin(c)

\* Two categories of one user carry the same name
C8_Duplicate(cats) ==
    \E a \in cats, b \in cats :
       a.id # b.id /\ a.name = b.name /\ a.user_id = b.user_id

\* C8: an add_category whose name the user already has inserts nothing,
\* and two same-named categories of one user exist only after two
\* add_category requests with that name and user both ran the existence
\* query before either committed.
C8_UniqueUnlessRaced ==
    [][ /\ C8_Duplicate(categories') => raced'
        /\ \A c \in Clients :
              (session[c] # 0 /\ pendingCat[c] = NoPending) =>
                 \A n \in CategoryNames :
                    (/\ AddCategoryCheck(c, n)
                     /\ \E k \in categories :
                           k.user_id = session[c] /\ k.name = Strip(n))
                       => /\ categories' = categories
                          /\ pendingCat' = pendingCat ]_vars

\* Both interleaved requests inserted their row
C8_Witness == C8_Duplicate(categories) /\ raced

\* C9 as claimed: no two Video rows with a thumbnail refer to the same
\* thumbnail file, also when they were added within one clock second.
C9_DistinctThumbnails ==
    \A a \in videos, b \in videos :
       (a.id # b.id /\ a.thumbnail_path \notin {None, <<>>})
          => a.thumbnail_path # b.thumbnail_path

\* C10 as claimed: the category_id of every Video row is the id of a
\* Category owned by the owner of the video.
C10_CategoryOwned ==
    \A v \in videos :
       \E k \in categories : k.id = v.category_id /\ k.user_id = v.user_id

=============================================================================
